---- MODULE Spec2Model ----
(***************************************************************************)
(* Model of v2/scripts/migration/cleanup_v1_calendar.py: the one-time      *)
(* cleanup of the calendar entries the v1 application created.             *)
(*                                                                         *)
(* The program is single-threaded; each action below is one step of        *)
(* CalendarCleanup.run() or of the functions it calls, and pc is the       *)
(* position of the single thread.  Strings the code inspects (event        *)
(* summaries, EVENT_PATTERNS) are sequences of one-character strings, so   *)
(* that str.startswith is computed character by character.                 *)
(*                                                                         *)
(* The persistence table and the calendar provider are the environment:    *)
(* their answers are drawn with \E from bounded sets.                      *)
(***************************************************************************)
EXTENDS Integers, Sequences, FiniteSets, TLC

(***************************************************************************)
(* Bounds of the model.                                                    *)
(***************************************************************************)
\* largest number of rows the persistence query returns
MaxUsers == 2
\* largest number of pages the provider serves for one pattern search
MaxPages == 2
\* largest number of items on one page of a search response
MaxPageItems == 2
\* clock readings and expiry timestamps
MaxTime == 2

(***************************************************************************)
(* Program constants.                                                      *)
(***************************************************************************)
EVENT_PATTERNS ==
  << <<"P","W","D"," ","E","x","p","i","r","a","t","i","o","n",":">>,
     <<"E","T","A"," ","9","0","8","9"," ","F","i","l","i","n","g",":">>,
     <<"E","T","A"," ","9","0","8","9"," ","E","x","p","i","r","a","t","i","o","n",":">>,
     <<"R","e","a","d","y"," ","t","o"," ","F","i","l","e",":">>,
     <<"R","e","c","r","u","i","t","m","e","n","t"," ","E","x","p","i","r","e","s",":">>,
     <<"I","-","1","4","0"," ","D","e","a","d","l","i","n","e",":">>,
     <<"R","F","I"," ","R","e","s","p","o","n","s","e"," ","D","u","e",":">>,
     <<"R","F","E"," ","R","e","s","p","o","n","s","e"," ","D","u","e",":">> >>

\* the five environment variables initialize() requires, in the order it
\* tests them
REQUIRED_ENV ==
  << "SUPABASE_URL", "SUPABASE_KEY", "ENCRYPTION_KEY",
     "GOOGLE_CLIENT_ID", "GOOGLE_CLIENT_SECRET" >>

(***************************************************************************)
(* The calendar entries that exist in the model: identity and display      *)
(* text (the 'summary' of the provider's event resource).                  *)
(*   a  carries a pattern as a prefix                                      *)
(*   b  the same text in lower case                                        *)
(*   c  carries a pattern, but not at the start                            *)
(*   d  carries another pattern as a prefix                                *)
(*   e  has no summary (event.get('summary', '') gives the empty string)   *)
(***************************************************************************)
EntryIds == {"a", "b", "c", "d", "e"}

EntryText ==
  [ a |-> <<"P","W","D"," ","E","x","p","i","r","a","t","i","o","n",":"," ","A">>,
    b |-> <<"p","w","d"," ","e","x","p","i","r","a","t","i","o","n",":"," ","A">>,
    c |-> <<"R","e",":"," ","R","F","E"," ","R","e","s","p","o","n","s","e"," ","D","u","e",":"," ","A">>,
    d |-> <<"R","F","E"," ","R","e","s","p","o","n","s","e"," ","D","u","e",":"," ","A">>,
    e |-> << >> ]

\* the calendars the users start with: the first user's, the second's, the
\* third's, and round again
CalendarChoices == << {"a", "c", "d"}, {"a", "b", "e"}, {"e"} >>

InitialCalendar(u) == CalendarChoices[((u - 1) % Len(CalendarChoices)) + 1]

VARIABLES
  \* ---- the process and the CalendarCleanup object
  rerun,          \* this is the second invocation of the script
  pc,             \* position of the thread
  dry_run,        \* self.dry_run
  supabase,       \* self.supabase is not None
  missing_vars,   \* missing_vars of initialize()
  stats,          \* self.stats
  users,          \* users of run(): the rows the query returned
  i,              \* loop index of run(), 1-based
  worker,         \* how process_user ended: "none", "true", "false", "raise"
  token_expiry,   \* token_expiry of get_google_credentials
  clock,          \* what datetime.now() gave get_google_credentials
  refreshed,      \* credentials.refresh() was called and returned
  service_failed, \* for this user, get_calendar_service raised
  pat,            \* index in EVENT_PATTERNS of the pattern being searched
  page_token,     \* page_token of find_perm_events; 0 is None
  events_found,   \* events_found of find_perm_events / events of process_user
  k,              \* index in events of the event delete_events is at
  deleted_count,  \* deleted_count of delete_events
  result,         \* what run() returned: "none", "true", "false"
  exit_status,    \* argument of sys.exit; -1 while the process is alive
  \* ---- the environment
  environ,        \* os.environ: which required variables have a value
  table,          \* number of rows of perm_users with calendar_connected
  calendar,       \* calendar[u]: identities of the entries in u's calendar
  \* ---- what an observer of the run has seen
  fatal,          \* which fatal failure ended run(): "none", "config", ...
  queried,        \* the persistence query has been issued
  provider_called,\* some provider call (refresh, build, list, delete) was made
  delete_calls,   \* the delete calls issued, in order
  list_error,     \* for this user, an events().list() call raised
  requested,      \* pageToken of the latest events().list() call (0: None)
  answered,       \* nextPageToken of the latest response (0: none)
  first_seen,     \* ids carrying a pattern, in the order first returned
  filtered_out,   \* for this user, line 232 rejected a returned event
  duplicate_seen, \* for this user, line 233 rejected a returned event
  processed,      \* the users whose loop iteration has started, in order
  sleeps,         \* number of time.sleep(1) calls
  summaries,      \* number of print_summary() calls
  dry_stats,      \* self.stats of a dry-run instance fed the same answers
  dry_deleted,    \* deleted_count of that instance
  run_clean,      \* so far every user was discovered in full and no delete failed
  prev_clean      \* run_clean at the end of the first invocation

vars ==
  << rerun, pc, dry_run, supabase, missing_vars, stats, users, i, worker,
     token_expiry, clock, refreshed, service_failed, pat, page_token, events_found, k, deleted_count, result, exit_status,
     environ, table, calendar, fatal, queried, provider_called,
     delete_calls, list_error, requested, answered, first_seen, filtered_out, duplicate_seen, processed, sleeps, summaries, dry_stats, dry_deleted, run_clean,
     prev_clean >>

objVars == << dry_run, supabase, missing_vars >>
loopVars == << users, i >>
credVars == << token_expiry, clock, refreshed >>
svcVars == << service_failed >>
findVars == << pat, page_token, events_found, filtered_out, duplicate_seen >>
listVars == << list_error, requested, answered, first_seen >>
delVars == << k, deleted_count, dry_deleted >>
envVars == << environ, table, calendar >>
runVars == << rerun, prev_clean >>
seenVars == << fatal, queried, delete_calls, processed, sleeps, summaries >>

(***************************************************************************)
(* Pure functions of the code.                                             *)
(***************************************************************************)
\* the statistics dictionary __init__ builds
InitStats ==
  [ users_processed |-> 0, users_successful |-> 0, users_failed |-> 0,
    total_events_found |-> 0, total_events_deleted |-> 0, errors |-> << >> ]

\* str.startswith
startswith(s, p) ==
  /\ Len(p) <= Len(s)
  /\ \A n \in 1..Len(p) : s[n] = p[n]

\* Qualifies, had line 232 tested "p in summary"
QualifiesAnywhere(summary) ==
  \E n \in 1..Len(EVENT_PATTERNS), off \in 0..Len(summary) :
    startswith(SubSeq(summary, off + 1, Len(summary)), EVENT_PATTERNS[n])

\* line 232: any(summary.startswith(p) for p in EVENT_PATTERNS)
Qualifies(summary) ==
  \E n \in 1..Len(EVENT_PATTERNS) : startswith(summary, EVENT_PATTERNS[n])

\* AlreadyFound, had line 233 been left out
AlreadyFoundNever(found, id) == FALSE

\* line 233: any(e['id'] == event['id'] for e in events_found)
AlreadyFound(found, id) ==
  \E n \in 1..Len(found) : found[n].id = id

\* AddEvent, had line 234 put the event at the head of events_found
AddEventInFront(found, id) ==
  IF Qualifies(EntryText[id]) /\ ~AlreadyFound(found, id)
    THEN << [id |-> id, summary |-> EntryText[id]] >> \o found
    ELSE found

\* lines 231-238: what one event of a response page does to events_found
AddEvent(found, id) ==
  IF Qualifies(EntryText[id]) /\ ~AlreadyFound(found, id)
    THEN Append(found, [id |-> id, summary |-> EntryText[id]])
    ELSE found

\* lines 230-238: the loop over the events of one response page
RECURSIVE AddEvents(_, _)
AddEvents(found, items) ==
  IF items = << >> THEN found
  ELSE AddEvents(AddEvent(found, Head(items)), Tail(items))

\* line 232 is false for some event of the page
SomeFiltered(items) ==
  \E n \in 1..Len(items) : ~Qualifies(EntryText[items[n]])

\* line 233 is false for some event of the page: it is in events_found
\* already, or earlier on the page
SomeDuplicate(found, items) ==
  \E n \in 1..Len(items) :
    /\ Qualifies(EntryText[items[n]])
    /\ \/ AlreadyFound(found, items[n])
       \/ \E m \in 1..(n - 1) : items[m] = items[n]

\* MissingFrom, had the test of the last variable (lines 104-105) been
\* left out
RECURSIVE MissingFromButLast(_, _)
MissingFromButLast(env, n) ==
  IF n > Len(REQUIRED_ENV) - 1 THEN << >>
  ELSE (IF env[REQUIRED_ENV[n]] THEN << >> ELSE << REQUIRED_ENV[n] >>)
         \o MissingFromButLast(env, n + 1)

\* lines 95-105: the names of the required variables that are not set
RECURSIVE MissingFrom(_, _)
MissingFrom(env, n) ==
  IF n > Len(REQUIRED_ENV) THEN << >>
  ELSE (IF env[REQUIRED_ENV[n]] THEN << >> ELSE << REQUIRED_ENV[n] >>)
         \o MissingFrom(env, n + 1)

\* lines 132-145: decrypt_token gives a token only for a ciphertext that is
\* present and decrypts under the key
decrypt_token(token) == token = "valid"

\* needs_refresh, had line 188 compared with >
needs_refreshOnlyAfter(expiry, now) ==
  IF expiry.kind = "absent" THEN TRUE
  ELSE IF expiry.kind = "garbage" THEN TRUE
  ELSE now > expiry.at

\* lines 177-188: needs_refresh
needs_refresh(expiry, now) ==
  IF expiry.kind = "absent" THEN TRUE
  ELSE IF expiry.kind = "garbage" THEN TRUE
  ELSE now >= expiry.at

\* IssuesDelete, had line 255 not looked at self.dry_run
IssuesDeleteAlways(dry) == TRUE

\* IssuesDelete, had the delete call (lines 258-261) been left out
IssuesDeleteNever(dry) == FALSE

\* line 255: the delete call is issued only when not in dry-run mode
IssuesDelete(dry) == ~dry

\* TotalDeleted, had line 296 added the number of events found
TotalDeletedAsFound(total, found, deleted) == total + found

\* line 296: total_events_deleted after a user with found events found, of
\* which delete_events counted deleted
TotalDeleted(total, found, deleted) == total + deleted

\* process_user, had it reported a user with failed deletions as failed
ProcessResultAllDeleted(found, deleted) ==
  IF deleted < found THEN "false" ELSE "true"

\* lines 292-293 and 301: what process_user returns once the events have
\* been searched, found of them found and deleted of them deleted
ProcessResult(found, deleted) == "true"

\* a delete call that raises would end the loop over the events
NextEventStopOnError(n, ok, len) == IF ok THEN n + 1 ELSE len + 1

\* lines 253, 264-265: the except clause is inside the loop body, so the
\* loop goes on to its next event whatever the delete call did
NextEvent(n, ok, len) == n + 1

\* lines 190-198: how process_user ends after the answer to refresh():
\* RefreshError is caught and credentials are absent (line 196, then 278);
\* anything else that is raised leaves process_user
RefreshOutcome(answer, w) ==
  IF answer = "ok" THEN w
  ELSE IF answer = "RefreshError" THEN "false"
  ELSE "raise"

\* CountAfter, had line 263 stood after the try statement: every attempt
\* counts
CountAfterAttempts(dry, count, ok) == count + 1

\* CountAfter, had line 263 stood in the else branch: a would-delete does
\* not count
CountAfterDryUncounted(dry, count, ok) ==
  IF dry THEN count
  ELSE IF ok THEN count + 1 ELSE count

\* lines 254-265: deleted_count after one event, ok being the outcome of
\* the delete call where one is issued
CountAfter(dry, count, ok) ==
  IF dry THEN count + 1
  ELSE IF ok THEN count + 1 ELSE count

\* Outcome, had the except clause (lines 352-355) only logged the error
OutcomeSwallowingRaise(st, w, u) ==
  IF w = "true"
    THEN [st EXCEPT !.users_successful = @ + 1]
  ELSE IF w = "false"
    THEN [st EXCEPT !.users_failed = @ + 1,
                    !.errors = Append(@, [user |-> u,
                                          msg |-> "credential/auth failure"])]
  ELSE st

\* Outcome, had line 351 been left out
OutcomeNoErrorEntry(st, w, u) ==
  IF w = "true"
    THEN [st EXCEPT !.users_successful = @ + 1]
  ELSE IF w = "false"
    THEN [st EXCEPT !.users_failed = @ + 1]
  ELSE [st EXCEPT !.users_failed = @ + 1,
                  !.errors = Append(@, [user |-> u, msg |-> "exception"])]

\* lines 347-355: the statistics after process_user ended as w for user u
Outcome(st, w, u) ==
  IF w = "true"
    THEN [st EXCEPT !.users_successful = @ + 1]
  ELSE IF w = "false"
    THEN [st EXCEPT !.users_failed = @ + 1,
                    !.errors = Append(@, [user |-> u,
                                          msg |-> "credential/auth failure"])]
  ELSE [st EXCEPT !.users_failed = @ + 1,
                  !.errors = Append(@, [user |-> u, msg |-> "exception"])]

\* MoreUsers, had the loop run over users[:-1]
MoreUsersButLast(n, len) == n < len - 1

\* line 341: the for loop has a user after the n-th of len
MoreUsers(n, len) == n < len

\* SleepsAfter, had line 357 compared with len(users)
SleepsAfterEveryUser(n, len) == n - 1 < len

\* line 357: a pacing delay follows every user but the last (the code's i
\* counts from 0, n from 1)
SleepsAfter(n, len) == n - 1 < len - 1

\* RunResult, had line 362 asked for a successful user
RunResultAnySuccess(st) == st.users_successful > 0

\* line 362: the value run() returns after the loop
RunResult(st) == st.users_failed = 0

\* line 420: sys.exit(0 if success else 1)
ExitCode(res) == IF res = "true" THEN 0 ELSE 1

(***************************************************************************)
(* The environment's answers.                                              *)
(***************************************************************************)
Times == 0..MaxTime

\* no expiry is recorded for the row (or no row is being looked at)
NoExpiry == [kind |-> "absent", at |-> 0]

Expiries ==
  { NoExpiry, [kind |-> "garbage", at |-> 0] }
    \cup { [kind |-> "time", at |-> t] : t \in Times }

\* the pages a search may return: up to MaxPageItems entries of the user's
\* calendar, in any order, repetitions allowed
RECURSIVE SeqsUpTo(_, _)
SeqsUpTo(S, n) ==
  IF n = 0 THEN { << >> }
  ELSE LET shorter == SeqsUpTo(S, n - 1)
       IN shorter \cup { Append(s, x) : s \in shorter, x \in S }

Pages(cal) == SeqsUpTo(cal, MaxPageItems)

\* the entries of a calendar that find_perm_events is after
QualifyingIn(cal) == { id \in cal : Qualifies(EntryText[id]) }

FoundIds(found) == { found[n].id : n \in 1..Len(found) }

\* text begins with one of EVENT_PATTERNS, stated without the code's test
HasPatternPrefix(text) ==
  \E n \in 1..Len(EVENT_PATTERNS) :
    /\ Len(EVENT_PATTERNS[n]) <= Len(text)
    /\ SubSeq(text, 1, Len(EVENT_PATTERNS[n])) = EVENT_PATTERNS[n]

\* what an observer of the responses notes: the ids whose text begins with
\* a pattern, each at the place where it was returned for the first time
RECURSIVE NoteFirstSeen(_, _)
NoteFirstSeen(seen, items) ==
  IF items = << >> THEN seen
  ELSE NoteFirstSeen(
         IF /\ HasPatternPrefix(EntryText[Head(items)])
            /\ \A n \in 1..Len(seen) : seen[n] # Head(items)
           THEN Append(seen, Head(items))
           ELSE seen,
         Tail(items))

\* RequestToken, had every list call asked for the first page
RequestTokenNone(token) == 0

\* line 225: the pageToken that a list call passes
RequestToken(token) == token

(***************************************************************************)
(* Initial state: the script is about to be invoked for the first time.    *)
(***************************************************************************)
Init ==
  /\ rerun = FALSE
  /\ pc = "start"
  /\ dry_run \in BOOLEAN
  /\ supabase = FALSE
  /\ missing_vars = << >>
  /\ stats = InitStats
  /\ users = << >>
  /\ i = 0
  /\ worker = "none"
  /\ token_expiry = NoExpiry
  /\ clock = 0
  /\ refreshed = FALSE
  /\ service_failed = FALSE
  /\ pat = 0
  /\ page_token = 0
  /\ events_found = << >>
  /\ k = 0
  /\ deleted_count = 0
  /\ result = "none"
  /\ exit_status = -1
  /\ environ \in [{REQUIRED_ENV[n] : n \in 1..Len(REQUIRED_ENV)} -> BOOLEAN]
  /\ table \in 0..MaxUsers
  /\ calendar = [u \in 1..table |-> InitialCalendar(u)]
  /\ fatal = "none"
  /\ queried = FALSE
  /\ provider_called = FALSE
  /\ delete_calls = << >>
  /\ list_error = FALSE
  /\ requested = 0
  /\ answered = 0
  /\ first_seen = << >>
  /\ filtered_out = FALSE
  /\ duplicate_seen = FALSE
  /\ processed = << >>
  /\ sleeps = 0
  /\ summaries = 0
  /\ dry_stats = InitStats
  /\ dry_deleted = 0
  /\ run_clean = TRUE
  /\ prev_clean = FALSE

(***************************************************************************)
(* run(), lines 312-314, and initialize(), lines 84-130.                   *)
(***************************************************************************)
\* run() returns False before the loop: nothing but the position, the
\* return value and the record of the failure changes
ReturnFatal(kind) ==
  /\ fatal' = kind
  /\ result' = "false"
  /\ run_clean' = FALSE
  /\ pc' = "returned"

Initialize ==
  /\ pc = "start"
  /\ \E client \in {"ok", "error"}, imports \in {"ok", "error"} :
       /\ missing_vars' = MissingFrom(environ, 1)
       /\ IF missing_vars' # << >>
            THEN ReturnFatal("config") /\ supabase' = FALSE
          ELSE IF client = "error"
            THEN ReturnFatal("client") /\ supabase' = FALSE
          ELSE IF imports = "error"
            THEN ReturnFatal("imports") /\ supabase' = TRUE
          ELSE /\ supabase' = TRUE
               /\ pc' = "query"
               /\ UNCHANGED << fatal, result, run_clean >>
  /\ UNCHANGED << svcVars, credVars, dry_run, stats, dry_stats, loopVars, worker, findVars, listVars,
                  delVars, exit_status, envVars, runVars, queried,
                  provider_called, delete_calls, processed, sleeps,
                  summaries >>

(***************************************************************************)
(* run(), lines 316-338: the persistence query.                            *)
(***************************************************************************)
QueryUsers ==
  /\ pc = "query"
  /\ IF ~supabase
       THEN ReturnFatal("query") /\ UNCHANGED << users, i, queried >>
       ELSE \E answer \in {"rows", "error"} :
              /\ queried' = TRUE
              /\ IF answer = "error"
                   THEN ReturnFatal("query") /\ UNCHANGED << users, i >>
                   ELSE /\ users' = [n \in 1..table |-> n]
                        /\ IF users' = << >>
                             THEN /\ result' = "true"
                                  /\ pc' = "returned"
                                  /\ i' = i
                             ELSE /\ result' = result
                                  /\ pc' = "iter"
                                  /\ i' = 1
                        /\ UNCHANGED << fatal, run_clean >>
  /\ UNCHANGED << svcVars, credVars, objVars, stats, dry_stats, worker, findVars, listVars, delVars,
                  exit_status, envVars, runVars, provider_called,
                  delete_calls, processed, sleeps, summaries >>

(***************************************************************************)
(* run(), lines 341-344: a loop iteration starts.                          *)
(***************************************************************************)
IterStart ==
  /\ pc = "iter"
  /\ stats' = [stats EXCEPT !.users_processed = @ + 1]
  /\ dry_stats' = [dry_stats EXCEPT !.users_processed = @ + 1]
  /\ processed' = Append(processed, users[i])
  /\ pc' = "creds"
  /\ UNCHANGED << svcVars, credVars, objVars, loopVars, worker, findVars, listVars, delVars, result,
                  exit_status, envVars, runVars, fatal, queried,
                  provider_called, delete_calls, sleeps, summaries,
                  run_clean >>

(***************************************************************************)
(* process_user(), lines 275-278, and get_google_credentials(),            *)
(* lines 147-188: the row's stored token and expiry and the clock are      *)
(* read, and needs_refresh is decided.                                     *)
(***************************************************************************)
GetCredentials ==
  /\ pc = "creds"
  /\ \E token \in {"valid", "undecryptable", "absent"},
        expiry \in Expiries, now \in Times :
       IF ~decrypt_token(token)
         THEN /\ worker' = "false"
              /\ pc' = "after"
              /\ UNCHANGED credVars
         ELSE /\ worker' = worker
              /\ token_expiry' = expiry
              /\ clock' = now
              /\ refreshed' = FALSE
              /\ pc' = IF needs_refresh(expiry, now) THEN "refresh"
                       ELSE "service"
  /\ UNCHANGED << svcVars, objVars, stats, dry_stats, loopVars, findVars, listVars, delVars,
                  result, exit_status, envVars, runVars, seenVars,
                  provider_called, run_clean >>

(***************************************************************************)
(* get_google_credentials(), lines 190-198: credentials.refresh().  The    *)
(* provider answers, raises RefreshError, or the call fails in another     *)
(* way (the transport, say); only RefreshError is caught.                  *)
(***************************************************************************)
Refresh ==
  /\ pc = "refresh"
  /\ \E answer \in {"ok", "RefreshError", "error"} :
       /\ worker' = RefreshOutcome(answer, worker)
       /\ IF answer = "ok"
            THEN /\ pc' = "service"
                 /\ refreshed' = TRUE
                 /\ UNCHANGED << token_expiry, clock >>
            ELSE /\ pc' = "after"
                 /\ token_expiry' = NoExpiry
                 /\ clock' = 0
                 /\ refreshed' = FALSE
  /\ provider_called' = TRUE
  /\ UNCHANGED << svcVars, objVars, stats, dry_stats, loopVars, findVars, listVars, delVars,
                  result, exit_status, envVars, runVars, seenVars,
                  run_clean >>

(***************************************************************************)
(* process_user(), lines 280-284: get_calendar_service().  The locals of    *)
(* get_google_credentials are gone.                                        *)
(***************************************************************************)
GetService ==
  /\ pc = "service"
  /\ \E built \in BOOLEAN :
       IF built
         THEN /\ pc' = "list"
              /\ pat' = 1
              /\ page_token' = 0
              /\ events_found' = << >>
              /\ filtered_out' = FALSE
              /\ duplicate_seen' = FALSE
              /\ worker' = worker
              /\ service_failed' = FALSE
         ELSE /\ pc' = "after"
              /\ worker' = "false"
              /\ service_failed' = TRUE
              /\ UNCHANGED findVars
  /\ UNCHANGED listVars
  /\ token_expiry' = NoExpiry
  /\ clock' = 0
  /\ refreshed' = FALSE
  /\ UNCHANGED << objVars, stats, dry_stats, loopVars, delVars, result,
                  exit_status, envVars, runVars, seenVars, provider_called,
                  run_clean >>

(***************************************************************************)
(* find_perm_events(), lines 215-247: one events().list() call and the     *)
(* handling of its response.  answer "more" is a response with a           *)
(* nextPageToken, "last" one without, "error" an exception raised by the   *)
(* call (every event of a response carries an id, so handling the items    *)
(* raises nothing).  When the function returns, its locals pattern and     *)
(* page_token are gone.                                                    *)
(***************************************************************************)
ListPage ==
  /\ pc = "list"
  /\ \E items \in Pages(calendar[users[i]]),
        answer \in {"more", "last", "error"} :
       /\ answer = "more" => page_token + 1 < MaxPages
       /\ answer = "error" => items = << >>
       /\ events_found' = AddEvents(events_found, items)
       /\ filtered_out' = (filtered_out \/ SomeFiltered(items))
       /\ duplicate_seen' =
            (duplicate_seen \/ SomeDuplicate(events_found, items))
       /\ first_seen' = NoteFirstSeen(first_seen, items)
       /\ list_error' = (answer = "error")
       /\ requested' = RequestToken(page_token)
       /\ answered' = IF answer = "more" THEN page_token + 1 ELSE 0
       /\ IF answer = "error"
            THEN pc' = "found" /\ pat' = 0 /\ page_token' = 0
          ELSE IF answer = "more"
            THEN pc' = pc /\ pat' = pat /\ page_token' = answered'
          ELSE IF pat < Len(EVENT_PATTERNS)
            THEN pc' = pc /\ pat' = pat + 1 /\ page_token' = 0
          ELSE pc' = "found" /\ pat' = 0 /\ page_token' = 0
  /\ provider_called' = TRUE
  /\ UNCHANGED << svcVars, credVars, objVars, stats, dry_stats, loopVars, worker, delVars,
                  result, exit_status, envVars, runVars, seenVars,
                  run_clean >>

(***************************************************************************)
(* process_user(), lines 286-293.                                          *)
(***************************************************************************)
CountFound ==
  /\ pc = "found"
  /\ stats' = [stats EXCEPT !.total_events_found = @ + Len(events_found)]
  /\ dry_stats' =
       [dry_stats EXCEPT !.total_events_found = @ + Len(events_found)]
  /\ run_clean' =
       (run_clean /\ FoundIds(events_found) = QualifyingIn(calendar[users[i]]))
  /\ list_error' = FALSE
  /\ requested' = 0
  /\ answered' = 0
  /\ first_seen' = << >>
  /\ IF Len(events_found) = 0
       THEN /\ worker' = ProcessResult(0, 0)
            /\ pc' = "after"
            /\ filtered_out' = FALSE
            /\ duplicate_seen' = FALSE
            /\ UNCHANGED delVars
       ELSE /\ worker' = worker
            /\ pc' = "delete"
            /\ k' = 1
            /\ deleted_count' = 0
            /\ dry_deleted' = 0
            /\ UNCHANGED << filtered_out, duplicate_seen >>
  /\ UNCHANGED << svcVars, credVars, objVars, loopVars, pat, page_token, events_found, result, exit_status, envVars,
                  runVars, seenVars, provider_called >>

(***************************************************************************)
(* delete_events(), lines 253-265: one iteration of the loop.              *)
(***************************************************************************)
DeleteEvent ==
  /\ pc = "delete"
  /\ k <= Len(events_found)
  /\ \E ok \in BOOLEAN :
       /\ IF IssuesDelete(dry_run)
            THEN /\ delete_calls' =
                      Append(delete_calls, [user |-> users[i],
                                            id |-> events_found[k].id,
                                            ok |-> ok])
                 /\ calendar' =
                      IF ok THEN [calendar EXCEPT
                                    ![users[i]] = @ \ {events_found[k].id}]
                      ELSE calendar
                 /\ provider_called' = TRUE
                 /\ run_clean' = (run_clean /\ ok)
            ELSE /\ ok
                 /\ UNCHANGED << delete_calls, calendar, provider_called,
                                 run_clean >>
       /\ deleted_count' = CountAfter(dry_run, deleted_count, ok)
       /\ dry_deleted' = CountAfter(TRUE, dry_deleted, ok)
       /\ k' = NextEvent(k, ok, Len(events_found))
  /\ UNCHANGED << svcVars, credVars, pc, objVars, stats, dry_stats, loopVars, worker, findVars, listVars,
                  result, exit_status, environ, table, runVars, fatal,
                  queried, processed, sleeps, summaries >>

(***************************************************************************)
(* delete_events() returns, line 267; process_user(), lines 295-301.       *)
(* process_user returns here, and its locals are gone.                     *)
(***************************************************************************)
FinishDelete ==
  /\ pc = "delete"
  /\ k > Len(events_found)
  /\ stats' =
       [stats EXCEPT !.total_events_deleted =
                       TotalDeleted(@, Len(events_found), deleted_count)]
  /\ dry_stats' =
       [dry_stats EXCEPT !.total_events_deleted =
                           TotalDeleted(@, Len(events_found), dry_deleted)]
  /\ worker' = ProcessResult(Len(events_found), deleted_count)
  /\ pc' = "after"
  /\ events_found' = << >>
  /\ k' = 0
  /\ deleted_count' = 0
  /\ dry_deleted' = 0
  /\ UNCHANGED listVars
  /\ filtered_out' = FALSE
  /\ duplicate_seen' = FALSE
  /\ UNCHANGED << svcVars, credVars, objVars, loopVars, pat, page_token, result, exit_status,
                  envVars, runVars, seenVars, provider_called, run_clean >>

(***************************************************************************)
(* run(), lines 346-358: the outcome of process_user is recorded and the   *)
(* loop goes on to the pacing delay or leaves.                             *)
(***************************************************************************)
RecordOutcome ==
  /\ pc = "after"
  /\ stats' = Outcome(stats, worker, users[i])
  /\ dry_stats' = Outcome(dry_stats, worker, users[i])
  /\ run_clean' = (run_clean /\ worker = "true")
  /\ worker' = "none"
  /\ IF SleepsAfter(i, Len(users))
       THEN pc' = "sleep" /\ i' = i
     ELSE IF MoreUsers(i, Len(users))
       THEN pc' = "iter" /\ i' = i + 1
     ELSE pc' = "summary" /\ i' = i
  /\ service_failed' = FALSE
  /\ UNCHANGED << credVars, objVars, users, findVars, listVars, delVars, result, exit_status,
                  envVars, runVars, seenVars, provider_called >>

\* line 358: time.sleep(1), then the loop goes to its next user or ends
Sleep ==
  /\ pc = "sleep"
  /\ sleeps' = sleeps + 1
  /\ IF MoreUsers(i, Len(users))
       THEN pc' = "iter" /\ i' = i + 1
       ELSE pc' = "summary" /\ i' = i
  /\ UNCHANGED << svcVars, credVars, objVars, stats, dry_stats, users, worker, findVars, listVars,
                  delVars, result, exit_status, envVars, runVars, fatal,
                  queried, provider_called, delete_calls, processed,
                  summaries, run_clean >>

\* line 360: print_summary()
PrintSummary ==
  /\ pc = "summary"
  /\ summaries' = summaries + 1
  /\ pc' = "return"
  /\ UNCHANGED << svcVars, credVars, objVars, stats, dry_stats, loopVars, worker, findVars, listVars,
                  delVars, result, exit_status, envVars, runVars, fatal,
                  queried, provider_called, delete_calls, processed, sleeps,
                  run_clean >>

\* line 362: return self.stats["users_failed"] == 0
Return ==
  /\ pc = "return"
  /\ result' = IF RunResult(stats) THEN "true" ELSE "false"
  /\ pc' = "returned"
  /\ UNCHANGED << svcVars, credVars, objVars, stats, dry_stats, loopVars, worker, findVars, listVars,
                  delVars, exit_status, envVars, runVars, seenVars,
                  provider_called, run_clean >>

\* main(), lines 418-420: sys.exit(0 if success else 1)
SysExit ==
  /\ pc = "returned"
  /\ exit_status' = ExitCode(result)
  /\ pc' = "exited"
  /\ UNCHANGED << svcVars, credVars, objVars, stats, dry_stats, loopVars, worker, findVars, listVars,
                  delVars, result, envVars, runVars, seenVars,
                  provider_called, run_clean >>

(***************************************************************************)
(* A live run is repeated in live mode: main(), line 417, and __init__,     *)
(* lines 67-82, build a new object; the table and the calendars are as     *)
(* the first invocation left them.  (A dry run leaves them as they were,   *)
(* so what follows a dry run is what Init starts.)                         *)
(***************************************************************************)
NextRun ==
  /\ pc = "exited"
  /\ ~rerun
  /\ ~dry_run
  /\ rerun' = TRUE
  /\ prev_clean' = run_clean
  /\ pc' = "start"
  /\ dry_run' = FALSE
  /\ supabase' = FALSE
  /\ missing_vars' = << >>
  /\ stats' = InitStats
  /\ users' = << >>
  /\ i' = 0
  /\ worker' = "none"
  /\ token_expiry' = NoExpiry
  /\ clock' = 0
  /\ refreshed' = FALSE
  /\ service_failed' = FALSE
  /\ pat' = 0
  /\ page_token' = 0
  /\ events_found' = << >>
  /\ k' = 0
  /\ deleted_count' = 0
  /\ result' = "none"
  /\ exit_status' = -1
  /\ fatal' = "none"
  /\ queried' = FALSE
  /\ provider_called' = FALSE
  /\ delete_calls' = << >>
  /\ UNCHANGED listVars
  /\ filtered_out' = FALSE
  /\ duplicate_seen' = FALSE
  /\ processed' = << >>
  /\ sleeps' = 0
  /\ summaries' = 0
  /\ dry_stats' = InitStats
  /\ dry_deleted' = 0
  /\ run_clean' = TRUE
  /\ UNCHANGED envVars

Next ==
  \/ Initialize
  \/ QueryUsers
  \/ IterStart
  \/ GetCredentials
  \/ Refresh
  \/ GetService
  \/ ListPage
  \/ CountFound
  \/ DeleteEvent
  \/ FinishDelete
  \/ RecordOutcome
  \/ Sleep
  \/ PrintSummary
  \/ Return
  \/ SysExit

\* one invocation of the script
Spec == Init /\ [][Next]_vars

\* a live invocation and its repetition
\* run() is one thread of straight-line code and loops whose every call
\* returns or raises: a step that can be taken is taken
SpecFair == Spec /\ WF_vars(Next)

NextTwice ==
  \/ Next
  \/ NextRun

SpecTwice == Init /\ [][NextTwice]_vars

(***************************************************************************)
(* Properties.                                                             *)
(***************************************************************************)
\* the delete calls of this run that the provider answered with an error
FailedDeletes ==
  Cardinality({ n \in 1..Len(delete_calls) : ~delete_calls[n].ok })

\* run() has returned
Returned == pc \in {"returned", "exited"}

\* C1: every delete call is for an entry whose display text begins,
\* character for character, with one of EVENT_PATTERNS; entries the search
\* returned that do not are never deleted.
C1_DeleteOnlyPrefixed ==
  \A n \in 1..Len(delete_calls) :
    HasPatternPrefix(EntryText[delete_calls[n].id])

\* a delete call was issued for a user whose search also returned an entry
\* that begins with no pattern
C1_Witness ==
  /\ pc = "delete"
  /\ filtered_out
  /\ \E n \in 1..Len(delete_calls) : delete_calls[n].user = users[i]

\* C2: within a run no two delete calls are for the same entry of the same
\* user.
C2_NoDoubleDelete ==
  \A m, n \in 1..Len(delete_calls) :
    m # n => ~(/\ delete_calls[m].user = delete_calls[n].user
               /\ delete_calls[m].id = delete_calls[n].id)

\* the searches returned an entry more than once, and every discovered
\* entry of the user has had its delete call
C2_Witness ==
  /\ pc = "delete"
  /\ duplicate_seen
  /\ k > Len(events_found)
  /\ Len(events_found) = 2
  /\ Cardinality({ n \in 1..Len(delete_calls) :
                     delete_calls[n].user = users[i] }) = 2

\* C3: in dry-run mode no delete call is issued and every calendar is as it
\* was when the run started.
C3_DryRunDeletesNothing ==
  dry_run =>
    /\ delete_calls = << >>
    /\ calendar = [u \in 1..table |-> InitialCalendar(u)]

\* a dry run has gone through delete_events for two discovered entries
C3_Witness ==
  /\ dry_run
  /\ pc = "delete"
  /\ k > Len(events_found)
  /\ deleted_count = 2

\* C4: the users are processed once each and in list order, all of them by
\* the end of the loop; an exception that escapes process_user becomes one
\* failed user and one error entry, and the loop goes on.
C4_EveryUserProcessed ==
  /\ [](/\ Len(processed) <= Len(users)
        /\ processed = SubSeq(users, 1, Len(processed))
        /\ stats.users_processed = Len(processed)
        /\ (users # << >> /\ pc \in {"summary", "return", "returned", "exited"})
             => (processed = users /\ stats.users_processed = Len(users)))
  /\ [][(pc = "after" /\ worker = "raise") =>
          /\ stats'.users_failed = stats.users_failed + 1
          /\ Len(stats'.errors) = Len(stats.errors) + 1
          /\ stats'.errors[Len(stats'.errors)].user = users[i]
          /\ stats'.users_processed = stats.users_processed
          /\ pc' = IF i < Len(users) THEN "sleep" ELSE "summary"]_vars

\* the first user's processing raised, and the second user was processed
\* and succeeded
C4_Witness ==
  /\ pc = "exited"
  /\ processed = << 1, 2 >>
  /\ stats.errors = << [user |-> 1, msg |-> "exception"] >>
  /\ stats.users_successful = 1

\* C5 as stated: run() returns success, and the process exits with 0,
\* exactly when no user was counted as failed.
C5_SuccessIffNoFailedUser ==
  /\ Returned => (result = "true" <=> stats.users_failed = 0)
  /\ pc = "exited" =>
       exit_status = (IF stats.users_failed = 0 THEN 0 ELSE 1)

\* C5, amended: run() returns success, and the process exits with 0,
\* exactly when run() did not end in a fatal failure and no user was
\* counted as failed; in every other case it returns failure and the
\* process exits with 1.
C5_SuccessIffNoFatalNoFailedUser ==
  /\ Returned =>
       (result = "true" <=> (fatal = "none" /\ stats.users_failed = 0))
  /\ Returned => result \in {"true", "false"}
  /\ pc = "exited" =>
       exit_status =
         (IF fatal = "none" /\ stats.users_failed = 0 THEN 0 ELSE 1)

\* a run with one successful and one failed user has exited with 1
C5_Witness ==
  /\ pc = "exited"
  /\ exit_status = 1
  /\ fatal = "none"
  /\ stats.users_successful = 1
  /\ stats.users_failed = 1

C7_StatsEqualDryStats ==
  pc = "exited" => stats = dry_stats

\* C7, amended: at the end of a run the statistics are those of a dry run
\* fed the same rows and the same answers, except that total_events_deleted
\* of a live run is lower by the number of its delete calls that failed.
C7_StatsEqualDryStatsButFailedDeletes ==
  pc = "exited" =>
    /\ [stats EXCEPT !.total_events_deleted = dry_stats.total_events_deleted]
         = dry_stats
    /\ stats.total_events_deleted + FailedDeletes
         = dry_stats.total_events_deleted

\* a live run has ended in which one delete call succeeded and one failed
C7_Witness ==
  /\ pc = "exited"
  /\ ~dry_run
  /\ FailedDeletes = 1
  /\ stats.total_events_deleted = 1
  /\ dry_stats.total_events_deleted = 2

\* C8: when a required environment variable is not set, run() returns
\* failure without issuing the persistence query, without a provider call
\* and without touching a statistics counter.
C8_MissingConfigFailsFast ==
  ((\E n \in 1..Len(REQUIRED_ENV) : ~environ[REQUIRED_ENV[n]]) /\ pc # "start")
    => /\ Returned
       /\ result = "false"
       /\ ~queried
       /\ ~provider_called
       /\ stats = InitStats
       /\ processed = << >>
       /\ delete_calls = << >>

\* the process has exited with only GOOGLE_CLIENT_SECRET not set, although
\* the table has rows
C8_Witness ==
  /\ pc = "exited"
  /\ \A n \in 1..Len(REQUIRED_ENV) :
       environ[REQUIRED_ENV[n]] <=> (n # Len(REQUIRED_ENV))
  /\ table > 0
  /\ exit_status = 1

\* C9: in dry-run mode total_events_deleted equals total_events_found
\* whenever the thread is not inside delete_events, so after each user and
\* at the end of the run.
C9_DryRunDeletedEqualsFound ==
  (dry_run /\ pc # "delete")
    => stats.total_events_deleted = stats.total_events_found

\* a dry run over two users has ended with three events found
C9_Witness ==
  /\ dry_run
  /\ pc = "exited"
  /\ stats.users_processed = 2
  /\ stats.total_events_found = 3

\* C10: the summary is printed at most once, only when every user has been
\* processed, and exactly once by the time run() returns from a run that
\* entered the loop; a run that ends in a fatal failure prints none.
C10_SummaryOnceAfterLoop ==
  /\ summaries <= 1
  /\ summaries = 1 =>
       /\ users # << >>
       /\ processed = users
       /\ worker = "none"
       /\ stats.users_successful + stats.users_failed = Len(users)
       /\ pc \in {"return", "returned", "exited"}
  /\ (Returned /\ users # << >>) => summaries = 1
  /\ fatal # "none" => summaries = 0

\* a run over two users, one of them failed, has printed its summary
C10_Witness ==
  /\ summaries = 1
  /\ pc = "return"
  /\ Len(users) = 2
  /\ stats.users_failed = 1

\* C11: a list call that raises while pattern number pat is searched ends
\* the search for that pattern only: unless it was the last pattern, the
\* search goes on with the next pattern of the same user.
C11_ListErrorSkipsOnePattern ==
  [][(pc = "list" /\ list_error')
       => IF pat < Len(EVENT_PATTERNS)
            THEN pc' = "list" /\ pat' = pat + 1 /\ page_token' = 0
            ELSE pc' = "found"]_vars

\* the delete calls issued so far for the user being processed
CallsForUser ==
  { n \in 1..Len(delete_calls) : delete_calls[n].user = users[i] }

\* C12: in a live run, while a user's events are deleted, the delete calls
\* made for that user are the first k - 1 events of the list, one call each
\* and in list order, whatever the earlier calls answered; the loop is left
\* only after the last event, with process_user returning True, and the
\* user is then counted as successful.
C12_FailedDeleteDoesNotStopDeletes ==
  /\ [](( pc = "delete" /\ ~dry_run) =>
          /\ k - 1 <= Len(events_found)
          /\ Cardinality(CallsForUser) = k - 1
          /\ \A n \in 1..(k - 1) :
               LET call == delete_calls[Len(delete_calls) - (k - 1) + n]
               IN  call.user = users[i] /\ call.id = events_found[n].id)
  /\ [][(pc = "delete" /\ ~dry_run /\ pc' # "delete") =>
          /\ k = Len(events_found) + 1
          /\ pc' = "after"
          /\ worker' = "true"]_vars
  /\ [][(pc = "after" /\ worker = "true" /\ pc' # "after") =>
          /\ stats'.users_successful = stats.users_successful + 1
          /\ stats'.users_failed = stats.users_failed
          /\ stats'.errors = stats.errors]_vars

\* a live run has made the second delete call for a user after the first
\* delete call for that user was answered with an error
C12_Witness ==
  /\ ~dry_run
  /\ pc = "delete"
  /\ k = 3
  /\ Len(delete_calls) >= 2
  /\ delete_calls[Len(delete_calls) - 1].user = users[i]
  /\ ~delete_calls[Len(delete_calls) - 1].ok
  /\ delete_calls[Len(delete_calls)].id = events_found[2].id

ExpiryDue ==
  \/ token_expiry.kind \in {"absent", "garbage"}
  \/ ~(clock < token_expiry.at)

\* C14: for a user whose token decrypted, refresh() is about to be called
\* only when the stored expiry is absent, does not parse, or the clock is at
\* or after it, and credentials come back refreshed exactly in those cases;
\* when refresh() is called, no list call and no delete call has been made
\* for that user.
C14_RefreshIffExpiryDue ==
  /\ pc = "refresh" =>
       /\ ExpiryDue
       /\ ~refreshed
       /\ pat = 0 /\ requested = 0 /\ events_found = << >>
       /\ k = 0
       /\ ~rerun => CallsForUser = {}
  /\ pc = "service" => (refreshed <=> ExpiryDue)

\* credentials were refreshed for an expiry equal to the clock's time
C14_Witness ==
  /\ pc = "service"
  /\ refreshed
  /\ token_expiry.kind = "time"
  /\ clock = token_expiry.at
  /\ clock > 0

\* where process_user is, as a stage of the per-user worker: 1 is START,
\* 2 CREDENTIALS_RESOLVED, 3 EVENTS_DISCOVERED, 4 its end (EVENTS_PROCESSED
\* and DONE, or SKIPPED)
Stage ==
  [creds |-> 1, refresh |-> 1, service |-> 2, list |-> 2, found |-> 3,
   delete |-> 3, after |-> 4]

\* the worker never goes back to an earlier stage
OnlyForward ==
  [][(pc \in DOMAIN Stage /\ pc' \in DOMAIN Stage) =>
       Stage[pc] <= Stage[pc']]_vars

\* C15 as stated: the worker only moves forward, and it ends otherwise than
\* with True only from START, with credentials absent.
C15_OnlySkippedFails ==
  /\ OnlyForward
  /\ [][(pc # "after" /\ pc' = "after" /\ worker' # "true") =>
          (Stage[pc] = 1 /\ worker' = "false")]_vars

\* C15: the worker only moves forward; it ends otherwise than with True
\* only with credentials absent (False, from START), with an exception that
\* refresh() raised (from START), or with the calendar service not built
\* (False, with credentials resolved); once the service is built and the
\* search has begun, process_user returns True.
C15_FailsOnlyBeforeDiscovery ==
  /\ OnlyForward
  /\ [][(pc # "after" /\ pc' = "after" /\ worker' # "true") =>
          \/ Stage[pc] = 1 /\ worker' = "false"
          \/ pc = "refresh" /\ worker' = "raise"
          \/ pc = "service" /\ worker' = "false"]_vars
  /\ [][(pc \in {"list", "found", "delete"} /\ pc' = "after") =>
          worker' = "true"]_vars

\* process_user has returned False for a user whose credentials were
\* resolved: the calendar service could not be built
C15_Witness ==
  /\ pc = "after"
  /\ service_failed
  /\ worker = "false"

\* C16: while a user's events are searched and when the search has ended,
\* events_found holds every id that was returned with a text beginning with
\* a pattern, once each however often and for however many patterns it was
\* returned, in the order in which the ids were returned for the first time.
C16_EachIdOnceInFirstSeenOrder ==
  pc \in {"list", "found"} =>
    /\ Len(events_found) = Len(first_seen)
    /\ \A n \in 1..Len(events_found) : events_found[n].id = first_seen[n]
    /\ \A m, n \in 1..Len(events_found) :
         events_found[m].id = events_found[n].id => m = n

\* a search has ended in which "d" was returned before "a", an id was
\* returned again, and an event without a pattern's prefix was returned
C16_Witness ==
  /\ pc = "found"
  /\ duplicate_seen
  /\ filtered_out
  /\ Len(events_found) = 2
  /\ events_found[1].id = "d"
  /\ events_found[2].id = "a"

\* C17: the search starts with the first pattern and no page token; each
\* list call passes the token of the response before it (none when a
\* pattern's search starts); after a response with a token the same pattern
\* is asked again with that token, after a response without one the next
\* pattern is searched, or the search ends if it was the last pattern; and
\* a search that has begun comes to its end.
C17_PagesFollowedToTheEnd ==
  /\ [][(pc = "service" /\ pc' = "list") =>
          (pat' = 1 /\ page_token' = 0 /\ answered' = 0)]_vars
  /\ [][pc = "list" =>
          /\ requested' = answered
          /\ ~list_error' =>
               IF answered' # 0
                 THEN pc' = "list" /\ pat' = pat /\ page_token' = answered'
               ELSE IF pat < Len(EVENT_PATTERNS)
                 THEN pc' = "list" /\ pat' = pat + 1 /\ page_token' = 0
               ELSE pc' = "found"]_vars
  /\ (pc = "list") ~> (pc = "found")

\* the second page of the last pattern has been asked for with the token of
\* the first, and the search has ended without an error
C17_Witness ==
  /\ pc = "found"
  /\ ~list_error
  /\ requested = 1
  /\ answered = 0

\* C18: the pacing delays that have completed are as many as the users
\* whose processing has ended, less one when the loop is at or past its
\* last user or the delay after the current user is still to come: a loop
\* over N users ends with N - 1 delays, a delay follows the processing of
\* every user but the last whether it succeeded or failed, and the next
\* user's processing starts only after the delay has completed.
C18_DelaysBetweenUsers ==
  /\ [](sleeps =
          IF pc \in {"iter", "creds", "refresh", "service", "list", "found",
                     "delete", "after"}
            THEN i - 1
          ELSE IF pc = "sleep" THEN Len(processed) - 1
          ELSE IF users # << >> THEN Len(users) - 1
          ELSE 0)
  /\ [][(pc = "after" /\ pc' # "after") =>
          IF i < Len(users) THEN pc' = "sleep" ELSE pc' = "summary"]_vars
  /\ [][(pc' = "iter" /\ pc # "iter" /\ i > 0) =>
          (pc = "sleep" /\ sleeps' = sleeps + 1 /\ i' = i + 1)]_vars

\* a run over two users has returned with one pacing delay, which followed
\* a user that failed
C18_Witness ==
  /\ Returned
  /\ Len(users) = 2
  /\ sleeps = 1
  /\ stats.users_failed = 1
  /\ stats.errors[1].user = users[1]

\* C19: whenever no user is being processed (before the loop, between two
\* iterations, after the loop and when run() has returned), users_processed
\* is users_successful + users_failed; and in every state the list of errors
\* has one entry for each failed user, in the order in which they failed.
C19_CountersAgree ==
  /\ pc \notin {"creds", "refresh", "service", "list", "found", "delete",
                 "after"} =>
       stats.users_processed = stats.users_successful + stats.users_failed
  /\ Len(stats.errors) = stats.users_failed
  /\ \A m, n \in 1..Len(stats.errors) :
       m < n => stats.errors[m].user < stats.errors[n].user
  /\ stats.users_processed = Len(processed)

\* a run over two users has ended with the first successful and the second
\* failed
C19_Witness ==
  /\ pc = "summary"
  /\ stats.users_processed = 2
  /\ stats.users_successful = 1
  /\ stats.users_failed = 1
  /\ stats.errors[1].user = users[2]

\* the delete calls of this run that returned without an error
ConfirmedDeletes ==
  Cardinality({ n \in 1..Len(delete_calls) : delete_calls[n].ok })

\* C20 as stated: in every state of a live run total_events_deleted is the
\* number of delete calls that have returned without an error, and it is at
\* most total_events_found.
C20_DeletedIsConfirmedInEveryState ==
  ~dry_run =>
    /\ stats.total_events_deleted = ConfirmedDeletes
    /\ stats.total_events_deleted <= stats.total_events_found

\* C20: in a live run total_events_deleted is the number of delete calls
\* that have returned without an error, less those counted so far by a
\* delete_events that has not yet returned (its deleted_count is added at
\* line 296 only); it is at most total_events_found in every state.
C20_DeletedIsConfirmedOnceTotalled ==
  ~dry_run =>
    /\ stats.total_events_deleted
         + (IF pc = "delete" THEN deleted_count ELSE 0) = ConfirmedDeletes
    /\ ConfirmedDeletes <= stats.total_events_found
    /\ stats.total_events_deleted <= stats.total_events_found

\* in a live run the second user's first delete call has returned without
\* an error, after all delete calls for the first user were totalled, one
\* of them failed
C20_Witness ==
  /\ ~dry_run
  /\ pc = "delete"
  /\ i = 2
  /\ deleted_count = 1
  /\ stats.total_events_deleted = 1
  /\ stats.total_events_found >= 3
  /\ FailedDeletes = 1

====
